---- MODULE Spec2Model ----
(***************************************************************************)
(* Ambulance logistics: the routing engine (pathfinding.py), the major     *)
(* road filter (road_network.py) and the session handlers of AmbulanceApp  *)
(* (main.py): generate_emergency, select_ambulance, block_roads.           *)
(*                                                                         *)
(* Numbers.  Coordinates are integers in units of 1/3000 degree relative   *)
(* to KHARKIV_CENTER, so that every coordinate constant of the program     *)
(* (0.008, 0.015, 0.02, 0.025, 0.025/1.5, 0.03) is an integer.  Midpoints  *)
(* are kept doubled and distances squared, which preserves every           *)
(* comparison the code makes on them.  Lengths are integer metres;         *)
(* distance_km and time_min are exact fractions [num, den] (Python floats  *)
(* are not modelled).                                                      *)
(***************************************************************************)
EXTENDS Integers, Sequences, FiniteSets, TLC

VARIABLES
    road_graph,                  \* self.road_graph
    major_road_edges,            \* self.major_road_edges
    emergency_location,          \* self.emergency_location (<<>> for None, or <<lat, lon>>)
    selected_ambulance_station,  \* self.selected_ambulance_station (0 for None, or 1..6)
    calculated_routes,           \* self.calculated_routes
    blocked_edges,               \* self.blocked_edges (list of <<u, v, key>>)
    blocked_edges_coords,        \* self.blocked_edges_coords
    impact_zones,                \* self.impact_zones
    pc,                          \* position of block_roads: "idle" or "impact"
    num_impacts,                 \* block_roads local: random.randint(3, 5)
    idx,                         \* block_roads local: index of the next impact
    fr_in,                       \* arguments of a direct find_routes call
    fr_out                       \* its outcome

vars == <<road_graph, major_road_edges, emergency_location, selected_ambulance_station,
          calculated_routes, blocked_edges, blocked_edges_coords, impact_zones,
          pc, num_impacts, idx, fr_in, fr_out>>

None == "None"

\* None in self.emergency_location, self.selected_ambulance_station
NoLocation == <<>>
NoStation == 0

\* no direct call made / not yet returned
NoCall == [start |-> <<0, 0>>, end |-> <<0, 0>>, blocked |-> <<>>]
Pending == [raised |-> "pending", routes |-> <<>>]

(***************************************************************************)
(* Bounds of the model.                                                    *)
(***************************************************************************)
\* largest blocked-edge list handed to a direct find_routes call
MaxBlocked == 2
\* how many of the emergency locations random.uniform may produce are drawn
NumEmergencyPoints == 2
\* how many of the impact points random.uniform may produce are drawn
NumImpactPoints == 2

(***************************************************************************)
(* Program constants.                                                      *)
(***************************************************************************)
AltThreshold == 10
MinImpacts == 3
MaxImpacts == 5
MinDamage == 2
MaxDamage == 4
DamageRadius == 24
MajorMaxDist == 45
StationOffset == 75
StationOffsetNE == 50
EmergencyOffset == 90
ImpactRadius == 60
SpeedHighway == 80
SpeedOther == 60
MetresPerKm == 1000
MinPerHour == 60

major_types == {"motorway", "motorway_link", "trunk", "trunk_link",
                "primary", "primary_link", "secondary", "secondary_link"}

fast_types == {"motorway", "trunk", "primary"}

(***************************************************************************)
(* The road graph the session loads: a 14-node directed multigraph.        *)
(*   corridor 1 - 2 - ... - 11 along the equator of the centre (node 6 at  *)
(*   the centre), a detour 2 - 14 - 3 as long as the edge 2 - 3, a bypass  *)
(*   4 - 12 - 8 on fast roads around the corridor's middle, a one-way      *)
(*   parallel link (5, 6, 1), and a one-way dead end 6 -> 13.              *)
(* 'highway' is a Python str (hwlist = FALSE, highway = <<class>>) or a    *)
(* Python list of classes (hwlist = TRUE).                                 *)
(***************************************************************************)
Node(lat, lon) == [y |-> lat, x |-> lon]

NodeData ==
    [n \in 1..14 |->
        IF n <= 11 THEN Node(0, 12 * n - 72)
        ELSE IF n = 12 THEN Node(20, 0)
        ELSE IF n = 13 THEN Node(-30, 0)
        ELSE Node(10, -42)]

E(u, v, key, length, highway) ==
    [u |-> u, v |-> v, key |-> key, length |-> length,
     highway |-> <<highway>>, hwlist |-> FALSE]

EL(u, v, key, length, highway) ==
    [u |-> u, v |-> v, key |-> key, length |-> length,
     highway |-> highway, hwlist |-> TRUE]

TwoWay(u, v, length, highway) == {E(u, v, 0, length, highway), E(v, u, 0, length, highway)}

EdgeData ==
    TwoWay(1, 2, 100, "residential") \cup TwoWay(2, 3, 100, "residential")
    \cup TwoWay(2, 14, 50, "residential") \cup TwoWay(14, 3, 50, "residential")
    \cup TwoWay(3, 4, 100, "tertiary")
    \cup TwoWay(4, 5, 100, "secondary")
    \cup TwoWay(5, 6, 100, "secondary") \cup {E(5, 6, 1, 90, "secondary_link")}
    \cup {E(6, 7, 0, 100, "secondary"), E(7, 6, 0, 100, "residential")}
    \cup {EL(7, 8, 0, 100, <<"primary", "secondary">>),
          EL(8, 7, 0, 100, <<"primary", "secondary">>)}
    \cup TwoWay(8, 9, 100, "tertiary") \cup TwoWay(9, 10, 100, "residential")
    \cup TwoWay(10, 11, 100, "primary")
    \cup TwoWay(4, 12, 210, "primary") \cup TwoWay(12, 8, 210, "primary")
    \cup {E(6, 13, 0, 50, "residential")}

LoadedGraph == [nodes |-> DOMAIN NodeData, pos |-> NodeData, edges |-> EdgeData]

Id(e) == <<e.u, e.v, e.key>>

Min(a, b) == IF a <= b THEN a ELSE b

SetMin(S) == CHOOSE m \in S : \A o \in S : m <= o

(***************************************************************************)
(* networkx / osmnx operations used by the program.                        *)
(***************************************************************************)
\* ox.distance.nearest_nodes: the node nearest to the point (smallest identifier on a tie)
Dist2(a, b) == (a.y - b.y) * (a.y - b.y) + (a.x - b.x) * (a.x - b.x)

find_nearest_node(graph, lat, lon) ==
    LET p == Node(lat, lon)
        d == [n \in graph.nodes |-> Dist2(graph.pos[n], p)]
        least == SetMin({d[n] : n \in graph.nodes})
    IN  SetMin({n \in graph.nodes : d[n] = least})

has_edge(graph, u, v, key) == \E e \in graph.edges : Id(e) = <<u, v, key>>

remove_edge(graph, u, v, key) ==
    [graph EXCEPT !.edges = {e \in graph.edges : Id(e) # <<u, v, key>>}]

\* graph[u][v].values(): the parallel edges from u to v
EdgesBetween(graph, u, v) == {e \in graph.edges : e.u = u /\ e.v = v}

\* larger than the length of any simple path
Infinity == 1 + Cardinality(DOMAIN NodeData) * 1000

\* one round of relaxation of every edge (weight = 'length')
RelaxAll(graph, d) ==
    [v \in graph.nodes |->
        SetMin({d[v]} \cup {d[e.u] + e.length :
                               e \in {f \in graph.edges : f.v = v /\ d[f.u] < Infinity}})]

RECURSIVE Distances(_, _, _)
Distances(graph, d, n) ==
    IF n = 0 THEN d
    ELSE LET nd == RelaxAll(graph, d)
         IN  IF nd = d THEN d ELSE Distances(graph, nd, n - 1)

\* the simple paths from s to v along which every edge is tight for d
RECURSIVE TightPaths(_, _, _, _, _)
TightPaths(graph, d, s, v, visited) ==
    IF v = s THEN {<<s>>}
    ELSE UNION { {Append(p, v) : p \in TightPaths(graph, d, s, e.u, visited \cup {v})} :
                   e \in {f \in graph.edges :
                            /\ f.v = v
                            /\ f.u \notin visited
                            /\ d[f.u] < Infinity
                            /\ d[f.u] + f.length = d[v]} }

\* nx.shortest_path(graph, s, t, weight='length'): the exception it raises, or the
\* paths it may return (which of several shortest paths is the library's choice)
shortest_path(graph, s, t) ==
    IF s \notin graph.nodes \/ t \notin graph.nodes
    THEN [exc |-> "NodeNotFound", paths |-> {}]
    ELSE LET d0 == [v \in graph.nodes |-> IF v = s THEN 0 ELSE Infinity]
             d  == Distances(graph, d0, Cardinality(graph.nodes))
         IN  IF d[t] >= Infinity
             THEN [exc |-> "NetworkXNoPath", paths |-> {}]
             ELSE [exc |-> None, paths |-> TightPaths(graph, d, s, t, {})]

(***************************************************************************)
(* pathfinding.py                                                          *)
(***************************************************************************)
Frac(n, d) == [num |-> n, den |-> d]

\* min(graph[u][v].values(), key=length): first minimal edge in key order
MinLengthEdge(graph, u, v) ==
    LET es == EdgesBetween(graph, u, v)
        ms == {e \in es : \A o \in es : e.length <= o.length}
    IN  CHOOSE e \in ms : \A o \in ms : e.key <= o.key

MaxLengthEdge(graph, u, v) ==
    LET es == EdgesBetween(graph, u, v)
        ms == {e \in es : \A o \in es : e.length >= o.length}
    IN  CHOOSE e \in ms : \A o \in ms : e.key <= o.key

\* edge_data of step i of the route
StepEdge(graph, u, v) == MinLengthEdge(graph, u, v)

\* 80 km/h for highways, 60 km/h for others ('highway' given as a list is no highway)
Speed(e) ==
    IF ~e.hwlist /\ e.highway[1] \in fast_types THEN SpeedHighway ELSE SpeedOther

SpeedLcm == 3 * SpeedHighway

RECURSIVE SumSteps(_, _, _, _)
SumSteps(graph, route, i, acc) ==
    IF i > Len(route) - 1 THEN acc
    ELSE LET e == StepEdge(graph, route[i], route[i + 1])
         IN  SumSteps(graph, route, i + 1,
                      [m |-> acc.m + e.length,
                       t |-> acc.t + e.length * (SpeedLcm \div Speed(e))])

\* distance (km) and time (min) of a route; time_hours is acc.t / (1000 * SpeedLcm)
calculate_route_metrics(graph, route) ==
    LET acc == SumSteps(graph, route, 1, [m |-> 0, t |-> 0])
    IN  [distance_km |-> Frac(acc.m, MetresPerKm),
         time_min    |-> Frac(acc.t, (MetresPerKm * SpeedLcm) \div MinPerHour)]

\* one iteration of the loop over blocked_edges
BlockedStepForwardOnly(graph, b) ==
    IF has_edge(graph, b[1], b[2], b[3]) THEN remove_edge(graph, b[1], b[2], b[3]) ELSE graph

BlockedStepReverseOnly(graph, b) ==
    IF has_edge(graph, b[2], b[1], b[3]) THEN remove_edge(graph, b[2], b[1], b[3]) ELSE graph

BlockedStep(graph, b) ==
    LET g1 == IF has_edge(graph, b[1], b[2], b[3])
              THEN remove_edge(graph, b[1], b[2], b[3]) ELSE graph
    IN  IF has_edge(g1, b[2], b[1], b[3]) THEN remove_edge(g1, b[2], b[1], b[3]) ELSE g1

RECURSIVE RemoveBlocked(_, _, _)
RemoveBlocked(graph, blocked, i) ==
    IF i > Len(blocked) THEN graph
    ELSE RemoveBlocked(BlockedStep(graph, blocked[i]), blocked, i + 1)

\* graph_clean: a copy of the graph without the blocked edges
GraphCleanInduced(graph, blocked) ==
    LET g == RemoveBlocked(graph, blocked, 1)
    IN  [g EXCEPT !.nodes = {e.u : e \in g.edges} \cup {e.v : e \in g.edges}]

GraphClean(graph, blocked) == RemoveBlocked(graph, blocked, 1)

\* the graph passed to find_routes, as it is when find_routes returns: every
\* remove_edge acts on graph_clean or graph_alt, which are copies (graph.copy())
GraphArgumentAliased(graph, blocked) == GraphClean(graph, blocked)

GraphArgument(graph, blocked) == graph

NeedsAlternativeFrom10(path) == Len(path) >= AltThreshold

NeedsAlternative(path) == Len(path) > AltThreshold

\* range(mid_start, min(mid_end, len(path) - 1)), as 1-based positions of path
MidSteps(path) ==
    LET mid_start == Len(path) \div 3
        mid_end   == (2 * Len(path)) \div 3
    IN  {i + 1 : i \in mid_start .. (Min(mid_end, Len(path) - 1) - 1)}

GraphAltReversed(graph_clean, path) ==
    [graph_clean EXCEPT !.edges =
        {e \in graph_clean.edges :
            ~ \E i \in MidSteps(path) : e.v = path[i] /\ e.u = path[i + 1]}]

\* graph_alt: graph_clean without every parallel edge of the middle steps
GraphAlt(graph_clean, path) ==
    [graph_clean EXCEPT !.edges =
        {e \in graph_clean.edges :
            ~ \E i \in MidSteps(path) : e.u = path[i] /\ e.v = path[i + 1]}]

FastestRoute(path, m) ==
    [name |-> "Fastest Route", path |-> path, distance_km |-> m.distance_km,
     time_min |-> m.time_min, color |-> "#00c853", type |-> "fastest"]

AlternativeRouteMislabeled(path, m) ==
    [name |-> "Alternative Route", path |-> path, distance_km |-> m.distance_km,
     time_min |-> m.time_min, color |-> "#ffa726", type |-> "fastest"]

AlternativeRoute(path, m) ==
    [name |-> "Alternative Route", path |-> path, distance_km |-> m.distance_km,
     time_min |-> m.time_min, color |-> "#ffa726", type |-> "alternative"]

\* the alternative-route block: the route lists it may leave in 'routes'
WithAlternative(graph_clean, path, routes, start_node, end_node) ==
    IF ~NeedsAlternative(path) THEN {routes}
    ELSE LET sp == shortest_path(GraphAlt(graph_clean, path), start_node, end_node)
         IN  IF sp.exc = "NetworkXNoPath" THEN {routes}
             ELSE { IF alt_path # path
                    THEN Append(routes,
                                AlternativeRoute(alt_path,
                                                 calculate_route_metrics(graph_clean, alt_path)))
                    ELSE routes : alt_path \in sp.paths }

Returned(routes) == [raised |-> None, routes |-> routes]

Raised(exc) == [raised |-> exc, routes |-> <<>>]

\* except nx.NetworkXNoPath: return []
NoPathOutcomeUncaught(exc) == Raised(exc)

NoPathOutcome(exc) == Returned(<<>>)

\* find_routes: the outcomes (a returned route list, or an exception) it may have
find_routes(graph, start_lat, start_lon, end_lat, end_lon, blocked) ==
    LET start_node  == find_nearest_node(graph, start_lat, start_lon)
        end_node    == find_nearest_node(graph, end_lat, end_lon)
        graph_clean == GraphClean(graph, blocked)
        sp          == shortest_path(graph_clean, start_node, end_node)
    IN  IF sp.exc = "NetworkXNoPath" THEN {NoPathOutcome(sp.exc)}
        ELSE IF sp.exc # None THEN {Raised(sp.exc)}
        ELSE UNION { { Returned(rs) :
                         rs \in WithAlternative(graph_clean, path,
                                    <<FastestRoute(path,
                                          calculate_route_metrics(graph_clean, path))>>,
                                    start_node, end_node) } :
                     path \in sp.paths }

(***************************************************************************)
(* road_network.py                                                         *)
(***************************************************************************)
\* iteration order of graph.edges(keys=True): by source, target, key
IdBefore(a, b) ==
    \/ a[1] < b[1]
    \/ a[1] = b[1] /\ a[2] < b[2]
    \/ a[1] = b[1] /\ a[2] = b[2] /\ a[3] < b[3]

RECURSIVE EdgeSeq(_)
EdgeSeq(edges) ==
    IF edges = {} THEN <<>>
    ELSE LET first == CHOOSE e \in edges : \A o \in edges \ {e} : IdBefore(Id(e), Id(o))
         IN  <<first>> \o EdgeSeq(edges \ {first})

\* twice the midpoint of the edge u -> v
Mid2(graph, u, v) ==
    [y |-> graph.pos[u].y + graph.pos[v].y, x |-> graph.pos[u].x + graph.pos[v].x]

\* four times the squared distance from the midpoint to (lat, lon)
MidDist(graph, u, v, lat, lon) ==
    Dist2(Mid2(graph, u, v), [y |-> 2 * lat, x |-> 2 * lon])

WithinRadius(d, radius) == d <= 4 * radius * radius

\* highway[0] if isinstance(highway, list) else highway
RoadClass(e) == e.highway[1]

RECURSIVE MajorFrom(_, _, _)
MajorFrom(graph, es, i) ==
    IF i > Len(es) THEN <<>>
    ELSE LET e == es[i]
             keep == /\ RoadClass(e) \in major_types
                     /\ WithinRadius(MidDist(graph, e.u, e.v, 0, 0), MajorMaxDist)
         IN  (IF keep THEN <<Id(e)>> ELSE <<>>) \o MajorFrom(graph, es, i + 1)

get_major_road_edges(graph) == MajorFrom(graph, EdgeSeq(graph.edges), 1)

\* no edge of the graph carries a 'geometry': the positions of its two nodes
get_edge_geometry(graph, edge) ==
    <<<<graph.pos[edge[1]].y, graph.pos[edge[1]].x>>,
      <<graph.pos[edge[2]].y, graph.pos[edge[2]].x>>>>

(***************************************************************************)
(* main.py: the session                                                    *)
(***************************************************************************)
\* self.stations, as <<lat, lon, name>>
stations ==
    << <<0, 0, "Central">>, <<StationOffset, 0, "North">>, <<-StationOffset, 0, "South">>,
       <<0, StationOffset, "East">>, <<0, -StationOffset, "West">>,
       <<StationOffsetNE, StationOffsetNE, "Northeast">> >>

InBox(p, r) == p[1] >= -r /\ p[1] <= r /\ p[2] >= -r /\ p[2] <= r

\* emergency locations drawn by generate_emergency
EmergencyPointSeq == << <<0, 62>>, <<0, -70>>, <<2, 25>>, <<-28, 3>> >>

EmergencyPoints ==
    {EmergencyPointSeq[i] : i \in 1..Min(NumEmergencyPoints, Len(EmergencyPointSeq))}

\* impact points drawn by block_roads
ImpactPointSeq == << <<-20, 0>>, <<10, -12>>, <<0, 0>>, <<0, 54>> >>

ImpactPoints ==
    {ImpactPointSeq[i] : i \in 1..Min(NumImpactPoints, Len(ImpactPointSeq))}

InList(x, list) == \E i \in 1..Len(list) : list[i] = x

\* the candidates of one impact, in the order of major_road_edges
RECURSIVE NearbyFrom(_, _, _, _, _, _)
NearbyFrom(graph, major, blocked, lat, lon, i) ==
    IF i > Len(major) THEN <<>>
    ELSE LET edge == major[i]
             dist == MidDist(graph, edge[1], edge[2], lat, lon)
             keep == ~InList(edge, blocked) /\ WithinRadius(dist, DamageRadius)
         IN  (IF keep THEN <<[edge |-> edge, dist |-> dist]>> ELSE <<>>)
             \o NearbyFrom(graph, major, blocked, lat, lon, i + 1)

\* list.sort(key=dist): stable
RECURSIVE InsertSorted(_, _)
InsertSorted(sorted, c) ==
    IF sorted = <<>> THEN <<c>>
    ELSE IF sorted[Len(sorted)].dist <= c.dist THEN Append(sorted, c)
    ELSE Append(InsertSorted(SubSeq(sorted, 1, Len(sorted) - 1), c), sorted[Len(sorted)])

RECURSIVE SortByDist(_, _, _)
SortByDist(list, i, acc) ==
    IF i > Len(list) THEN acc
    ELSE SortByDist(list, i + 1, InsertSorted(acc, list[i]))

NearbyUnsorted(graph, major, blocked, lat, lon) ==
    NearbyFrom(graph, major, blocked, lat, lon, 1)

NearbySorted(graph, major, blocked, lat, lon) ==
    SortByDist(NearbyFrom(graph, major, blocked, lat, lon, 1), 1, <<>>)

BlockEdgeReverseUnchecked(graph, st, edge) ==
    LET reverse_edge == <<edge[2], edge[1], edge[3]>>
        st1 == IF ~InList(edge, st.blocked)
               THEN [blocked |-> Append(st.blocked, edge),
                     coords  |-> Append(st.coords, get_edge_geometry(graph, edge)),
                     count   |-> st.count + 1]
               ELSE st
    IN  IF has_edge(graph, edge[2], edge[1], edge[3])
        THEN [st1 EXCEPT !.blocked = Append(st1.blocked, reverse_edge),
                         !.count = st1.count + 1]
        ELSE st1

BlockEdgeReverseAlways(graph, st, edge) ==
    LET reverse_edge == <<edge[2], edge[1], edge[3]>>
        st1 == IF ~InList(edge, st.blocked)
               THEN [blocked |-> Append(st.blocked, edge),
                     coords  |-> Append(st.coords, get_edge_geometry(graph, edge)),
                     count   |-> st.count + 1]
               ELSE st
    IN  IF ~InList(reverse_edge, st1.blocked)
        THEN [st1 EXCEPT !.blocked = Append(st1.blocked, reverse_edge),
                         !.count = st1.count + 1]
        ELSE st1

\* the body of the loop over nearby[:k]; st = [blocked, coords, count]
BlockEdge(graph, st, edge) ==
    LET reverse_edge == <<edge[2], edge[1], edge[3]>>
        st1 == IF ~InList(edge, st.blocked)
               THEN [blocked |-> Append(st.blocked, edge),
                     coords  |-> Append(st.coords, get_edge_geometry(graph, edge)),
                     count   |-> st.count + 1]
               ELSE st
    IN  IF has_edge(graph, edge[2], edge[1], edge[3]) /\ ~InList(reverse_edge, st1.blocked)
        THEN [st1 EXCEPT !.blocked = Append(st1.blocked, reverse_edge),
                         !.count = st1.count + 1]
        ELSE st1

RECURSIVE BlockSelected(_, _, _, _)
BlockSelected(graph, st, selected, i) ==
    IF i > Len(selected) THEN st
    ELSE BlockSelected(graph, BlockEdge(graph, st, selected[i].edge), selected, i + 1)

\* nearby[:k]
Prefix(list, k) == SubSeq(list, 1, Min(k, Len(list)))

RoutesOrEmptyUnblocked(graph, station_id, emergency, blocked) ==
    { o.routes :
        o \in find_routes(graph, stations[station_id][1], stations[station_id][2],
                          emergency[1], emergency[2], <<>>) }

\* find_routes under try/except: an exception leaves calculated_routes = []
RoutesOrEmpty(graph, station_id, emergency, blocked) ==
    { o.routes :
        o \in find_routes(graph, stations[station_id][1], stations[station_id][2],
                          emergency[1], emergency[2], blocked) }

Init ==
    /\ road_graph = LoadedGraph
    /\ major_road_edges = get_major_road_edges(LoadedGraph)
    /\ emergency_location = NoLocation
    /\ blocked_edges = <<>>
    /\ blocked_edges_coords = <<>>
    /\ impact_zones = <<>>
    /\ calculated_routes = <<>>
    /\ selected_ambulance_station = NoStation
    /\ pc = "idle"
    /\ num_impacts = 0
    /\ idx = 0
    /\ fr_in = NoCall
    /\ fr_out = Pending

blockLocals == <<pc, num_impacts, idx>>
damageVars == <<blocked_edges, blocked_edges_coords, impact_zones>>
callVars == <<fr_in, fr_out>>

select_ambulance(ambulance_id, station_id) ==
    /\ pc = "idle"
    /\ emergency_location # NoLocation
    /\ selected_ambulance_station' = station_id
    /\ calculated_routes' \in RoutesOrEmpty(road_graph, station_id, emergency_location,
                                            blocked_edges)
    /\ road_graph' = GraphArgument(road_graph, blocked_edges)
    /\ UNCHANGED <<major_road_edges, emergency_location, damageVars,
                   blockLocals, callVars>>

generate_emergency ==
    /\ pc = "idle"
    /\ \E p \in EmergencyPoints :
          /\ InBox(p, EmergencyOffset)
          /\ emergency_location' = p
    /\ selected_ambulance_station' = NoStation
    /\ calculated_routes' = <<>>
    /\ UNCHANGED <<road_graph, major_road_edges, damageVars, blockLocals, callVars>>

block_roads_begin_accumulating ==
    /\ pc = "idle"
    /\ major_road_edges # <<>>
    /\ num_impacts' \in MinImpacts..MaxImpacts
    /\ impact_zones' = <<>>
    /\ idx' = 1
    /\ pc' = "impact"
    /\ UNCHANGED <<road_graph, major_road_edges, emergency_location, blocked_edges,
                   blocked_edges_coords, selected_ambulance_station, calculated_routes,
                   callVars>>

\* block_roads up to the loop over the impacts.  The impact points are independent
\* draws that nothing reads before the iteration that uses them, so each is drawn
\* in its iteration; impact_zones records them in order.
block_roads_begin ==
    /\ pc = "idle"
    /\ major_road_edges # <<>>
    /\ num_impacts' \in MinImpacts..MaxImpacts
    /\ blocked_edges' = <<>>
    /\ blocked_edges_coords' = <<>>
    /\ impact_zones' = <<>>
    /\ idx' = 1
    /\ pc' = "impact"
    /\ UNCHANGED <<road_graph, major_road_edges, emergency_location,
                   selected_ambulance_station, calculated_routes, callVars>>

\* the body of the loop over the impacts, for the impact point p and the drawn count k
ImpactResult(graph, major, blocked, coords, p, k) ==
    BlockSelected(graph, [blocked |-> blocked, coords |-> coords, count |-> 0],
                  Prefix(NearbySorted(graph, major, blocked, p[1], p[2]), k), 1)

\* one iteration of the loop over the impacts; after the last one, the rest of block_roads
block_roads_impact(p, k) ==
    /\ pc = "impact"
    /\ InBox(p, ImpactRadius)
    /\ LET st == ImpactResult(road_graph, major_road_edges, blocked_edges,
                              blocked_edges_coords, p, k)
       IN  /\ blocked_edges' = st.blocked
           /\ blocked_edges_coords' = st.coords
           /\ impact_zones' = Append(impact_zones,
                                     [lat |-> p[1], lon |-> p[2], roads_damaged |-> st.count])
           /\ IF idx < num_impacts
              THEN /\ idx' = idx + 1
                   /\ UNCHANGED <<pc, num_impacts, calculated_routes, road_graph>>
              ELSE /\ idx' = 0
                   /\ num_impacts' = 0
                   /\ pc' = "idle"
                   /\ IF emergency_location # NoLocation
                         /\ selected_ambulance_station # NoStation
                      THEN /\ calculated_routes' \in
                                 RoutesOrEmpty(road_graph, selected_ambulance_station,
                                               emergency_location, st.blocked)
                           /\ road_graph' = GraphArgument(road_graph, st.blocked)
                      ELSE UNCHANGED <<calculated_routes, road_graph>>
    /\ UNCHANGED <<major_road_edges, emergency_location,
                   selected_ambulance_station, callVars>>

Next ==
    \/ \E a \in 1..Len(stations) : select_ambulance(a, a)
    \/ generate_emergency
    \/ block_roads_begin
    \/ \E p \in ImpactPoints, k \in MinDamage..MaxDamage : block_roads_impact(p, k)

Spec == Init /\ [][Next]_vars

(***************************************************************************)
(* find_routes called directly, on any start, end and blocked list.        *)
(***************************************************************************)
\* identifiers a blocked list may hold: the edges of the graph and their reverses
BlockableIds == {Id(e) : e \in EdgeData} \cup {<<e.v, e.u, e.key>> : e \in EdgeData}

RECURSIVE IdSeq(_)
IdSeq(ids) ==
    IF ids = {} THEN <<>>
    ELSE LET first == CHOOSE a \in ids : \A o \in ids \ {a} : IdBefore(a, o)
         IN  <<first>> \o IdSeq(ids \ {first})

\* the subsets of ids with at most n elements
RECURSIVE SmallSubsets(_, _)
SmallSubsets(ids, n) ==
    IF n = 0 THEN {{}}
    ELSE LET smaller == SmallSubsets(ids, n - 1)
         IN  smaller \cup {S \cup {x} : S \in smaller, x \in ids}

BlockedLists == {IdSeq(S) : S \in SmallSubsets(BlockableIds, MaxBlocked)}

RoutePoints == {<<stations[i][1], stations[i][2]>> : i \in 1..Len(stations)}

InitRoutes ==
    /\ road_graph = LoadedGraph
    /\ major_road_edges = get_major_road_edges(LoadedGraph)
    /\ emergency_location = NoLocation
    /\ blocked_edges = <<>>
    /\ blocked_edges_coords = <<>>
    /\ impact_zones = <<>>
    /\ calculated_routes = <<>>
    /\ selected_ambulance_station = NoStation
    /\ pc = "idle"
    /\ num_impacts = 0
    /\ idx = 0
    /\ fr_in \in [start : RoutePoints, end : EmergencyPoints, blocked : BlockedLists]
    /\ fr_out = Pending

call_find_routes ==
    /\ fr_out = Pending
    /\ fr_out' \in find_routes(road_graph, fr_in.start[1], fr_in.start[2],
                               fr_in.end[1], fr_in.end[2], fr_in.blocked)
    /\ road_graph' = GraphArgument(road_graph, fr_in.blocked)
    /\ UNCHANGED <<major_road_edges, emergency_location,
                   selected_ambulance_station, calculated_routes, damageVars,
                   blockLocals, fr_in>>

NextRoutes == call_find_routes

SpecRoutes == InitRoutes /\ [][NextRoutes]_vars

(***************************************************************************)
(* The damage button alone: block_roads reads nothing the other handlers   *)
(* write before its final route recalculation.                             *)
(***************************************************************************)
NextDamage ==
    \/ block_roads_begin
    \/ \E p \in ImpactPoints, k \in MinDamage..MaxDamage : block_roads_impact(p, k)

SpecDamage == Init /\ [][NextDamage]_vars

(***************************************************************************)
(* Properties of the damage run (block_roads).                             *)
(***************************************************************************)
Reverse(id) == <<id[2], id[1], id[3]>>

ListSet(list) == {list[i] : i \in 1..Len(list)}

\* a, b are consecutive nodes of the path, in that direction
Consecutive(path, a, b) == \E i \in 1..(Len(path) - 1) : path[i] = a /\ path[i + 1] = b

RECURSIVE SumDamaged(_, _)
SumDamaged(zones, i) ==
    IF i > Len(zones) THEN 0 ELSE zones[i].roads_damaged + SumDamaged(zones, i + 1)

\* the major edges an impact at p may still block: not blocked, midpoint within the radius
Candidates(p) ==
    {id \in ListSet(major_road_edges) :
        /\ id \notin ListSet(blocked_edges)
        /\ MidDist(road_graph, id[1], id[2], p[1], p[2]) <= 4 * DamageRadius * DamageRadius}

\* C8: during and after a damage run the blocked list holds no identifier twice, the
\* roads_damaged counts of the impacts add up to its length, and no blocked edge
\* (blocked forward or as a reverse) is a candidate of a further impact.
C8_NoDoubleCounting ==
    /\ \A i, j \in 1..Len(blocked_edges) : i # j => blocked_edges[i] # blocked_edges[j]
    /\ SumDamaged(impact_zones, 1) = Len(blocked_edges)
    /\ \A p \in ImpactPoints :
          \A i \in 1..Len(NearbySorted(road_graph, major_road_edges, blocked_edges, p[1], p[2])) :
             ~InList(NearbySorted(road_graph, major_road_edges, blocked_edges,
                                  p[1], p[2])[i].edge, blocked_edges)

\* a finished run in which two impacts at the same point both damaged roads: the
\* later one met the edges the earlier one had blocked
C8_Witness ==
    /\ pc = "idle"
    /\ \E i, j \in 1..Len(impact_zones) :
          /\ i < j
          /\ impact_zones[i].lat = impact_zones[j].lat
          /\ impact_zones[i].lon = impact_zones[j].lon
          /\ impact_zones[i].roads_damaged > 0
          /\ impact_zones[j].roads_damaged > 0

\* the geometries appended by the step
NewCoords == SubSeq(blocked_edges_coords', Len(blocked_edges_coords) + 1,
                    Len(blocked_edges_coords'))

\* C9 as stated: an impact with c candidates and drawn count k blocks exactly
\* min(k, c) edges in the forward direction.
C9_ForwardExactlyMin ==
    [][\A p \in ImpactPoints, k \in MinDamage..MaxDamage :
          block_roads_impact(p, k) =>
             Len(NewCoords) = Min(k, Cardinality(Candidates(p)))]_vars

\* C9 amended: an impact with c candidates and drawn count k selects the min(k, c)
\* candidates nearest to the impact point and all of them are blocked after it; it
\* blocks in the forward direction those of them that are not the same-key reverse
\* of another selected edge blocked before it, hence at most min(k, c) <= 4 edges,
\* at least one when c > 0, and at least half of min(k, c).
C9_SelectsNearest ==
    [][\A p \in ImpactPoints, k \in MinDamage..MaxDamage :
          block_roads_impact(p, k) =>
             LET cand == Candidates(p)
                 n    == Min(k, Cardinality(cand))
                 d(id) == MidDist(road_graph, id[1], id[2], p[1], p[2])
             IN  /\ \E S \in SUBSET cand :
                       /\ Cardinality(S) = n
                       /\ S \subseteq ListSet(blocked_edges')
                       /\ \A a \in S, b \in cand \ S : d(a) <= d(b)
                       /\ ListSet(blocked_edges') =
                             ListSet(blocked_edges) \cup S
                             \cup {Reverse(a) : a \in {b \in S : has_edge(road_graph, b[2], b[1], b[3])}}
                       /\ Len(NewCoords) =
                             Cardinality({a \in S : ~(Reverse(a) \in S /\ IdBefore(Reverse(a), a))})
                 /\ Len(NewCoords) <= n
                 /\ n <= MaxDamage
                 /\ 2 * Len(NewCoords) >= n]_vars

\* an impact whose nearest candidates were the two directions of one road: two
\* roads damaged, one of them forward
C9_Witness ==
    /\ Len(impact_zones) = 1
    /\ impact_zones[1].roads_damaged = 2
    /\ Len(blocked_edges_coords) = 1
    /\ blocked_edges = << <<4, 12, 0>>, <<12, 4, 0>> >>

\* C10: every blocked identifier is an edge of the road network, and the reverse
\* (v, u, key) of a blocked (u, v, key) is blocked exactly if it is an edge of the
\* network.
C10_BlockedClosedUnderReversal ==
    \A i \in 1..Len(blocked_edges) :
       LET b == blocked_edges[i]
       IN  /\ \E e \in road_graph.edges : Id(e) = b
           /\ (Reverse(b) \in ListSet(blocked_edges)) <=> (\E e \in road_graph.edges : Id(e) = Reverse(b))

\* a finished run that blocked a one-way link without a reverse, and a minor
\* reverse edge of a major edge
C10_Witness ==
    /\ pc = "idle"
    /\ <<5, 6, 1>> \in ListSet(blocked_edges)
    /\ <<7, 6, 0>> \in ListSet(blocked_edges)

\* the major edge id has its midpoint within the damage radius of the impact zone z
DamagedBy(id, z) ==
    /\ id \in ListSet(major_road_edges)
    /\ MidDist(road_graph, id[1], id[2], z.lat, z.lon) <= 4 * DamageRadius * DamageRadius

\* C11: during and after a damage run, every blocked edge is a major edge within the
\* damage radius of an impact point recorded for that run, or the reverse of such
\* an edge; nothing blocked only by an earlier run stays blocked.
C11_WavesReplace ==
    \A b \in ListSet(blocked_edges) :
       \E i \in 1..Len(impact_zones) :
          DamagedBy(b, impact_zones[i]) \/ DamagedBy(Reverse(b), impact_zones[i])

\* a later run under way: the routes still held were computed around the damage of
\* an earlier run (no call on an undamaged network returns them), the first impacts
\* of this run have blocked edges, and the corridor the held route left for the
\* bypass is open again
C11_Witness ==
    /\ pc = "impact"
    /\ idx > 1
    /\ blocked_edges # <<>>
    /\ calculated_routes # <<>>
    /\ calculated_routes \notin RoutesOrEmpty(road_graph, selected_ambulance_station,
                                              emergency_location, <<>>)
    /\ Consecutive(calculated_routes[1].path, 4, 12)
    /\ ListSet(blocked_edges) \cap {<<4, 5, 0>>, <<5, 6, 0>>, <<6, 7, 0>>, <<7, 8, 0>>} = {}

(***************************************************************************)
(* Properties of the session (all handlers).                               *)
(***************************************************************************)
\* C12: no step of the session changes the road network (nodes, positions, edges
\* and edge attributes), whether it calls find_routes or runs block_roads, and a
\* step that only calls find_routes (select_ambulance) leaves the blocked list it
\* passed as it was.
C12_NetworkNeverMutated ==
    [][/\ road_graph' = road_graph
       /\ (\E a \in 1..Len(stations) : select_ambulance(a, a)) =>
              blocked_edges' = blocked_edges]_vars

\* after a damage run and a call of find_routes that had to remove blocked edges from
\* its copy (the route found leaves the blocked corridor for the bypass), the
\* network is the loaded one and still holds every blocked edge
C12_Witness ==
    /\ pc = "idle"
    /\ blocked_edges # <<>>
    /\ calculated_routes # <<>>
    /\ Consecutive(calculated_routes[1].path, 4, 12)
    /\ road_graph = LoadedGraph
    /\ \A b \in ListSet(blocked_edges) : \E e \in road_graph.edges : Id(e) = b

\* C14: between the operations of the session, the routes held are an outcome of
\* find_routes for the selected station, the current emergency location and the
\* current blocked list (routes are held only while a station and an emergency are
\* set), and every step of every held route has a connecting edge that is not
\* blocked; after a damage run the routes from before it are not kept.
C14_RoutesFresh ==
    pc = "idle" =>
       /\ calculated_routes # <<>> =>
              /\ selected_ambulance_station # NoStation
              /\ emergency_location # NoLocation
              /\ \E o \in find_routes(road_graph,
                                       stations[selected_ambulance_station][1],
                                       stations[selected_ambulance_station][2],
                                       emergency_location[1], emergency_location[2],
                                       blocked_edges) :
                     calculated_routes = o.routes
       /\ \A r \in 1..Len(calculated_routes) :
              \A i \in 1..(Len(calculated_routes[r].path) - 1) :
                 \E e \in road_graph.edges :
                    /\ e.u = calculated_routes[r].path[i]
                    /\ e.v = calculated_routes[r].path[i + 1]
                    /\ Id(e) \notin ListSet(blocked_edges)

\* a finished damage run that blocked the corridor under a selected station and an
\* emergency: the route held afterwards takes the bypass, not the corridor
C14_Witness ==
    /\ pc = "idle"
    /\ Len(impact_zones) >= MinImpacts
    /\ <<5, 6, 0>> \in ListSet(blocked_edges)
    /\ Len(calculated_routes) = 1
    /\ Consecutive(calculated_routes[1].path, 4, 12)
    /\ ~Consecutive(calculated_routes[1].path, 5, 6)

(***************************************************************************)
(* Properties of find_routes, stated on the arguments and the outcome of a *)
(* direct call, against graphs and paths defined here from the network and *)
(* the blocked list alone.                                                 *)
(***************************************************************************)
StartNode == find_nearest_node(road_graph, fr_in.start[1], fr_in.start[2])
EndNode == find_nearest_node(road_graph, fr_in.end[1], fr_in.end[2])
BlockedIds == ListSet(fr_in.blocked)
Called == fr_out # Pending
Routes == fr_out.routes

\* the network without exactly the listed directed edges
DirectionalEdges == {e \in road_graph.edges : Id(e) \notin BlockedIds}

\* the network without the listed directed edges and their same-key reverses
BothWaysEdges ==
    {e \in road_graph.edges : Id(e) \notin BlockedIds /\ Reverse(Id(e)) \notin BlockedIds}

\* every simple path of the edge set that extends path to t
RECURSIVE PathsFrom(_, _, _)
PathsFrom(edges, path, t) ==
    LET last == path[Len(path)]
    IN  IF last = t THEN {path}
        ELSE UNION { PathsFrom(edges, Append(path, n), t) :
                       n \in {e.v : e \in {f \in edges : f.u = last}} \ ListSet(path) }

SimplePaths(edges, s, t) == PathsFrom(edges, <<s>>, t)

\* sum over the steps of the shortest parallel edge of the step
RECURSIVE PathLength(_, _, _)
PathLength(edges, path, i) ==
    IF i >= Len(path) THEN 0
    ELSE SetMin({e.length : e \in {f \in edges : f.u = path[i] /\ f.v = path[i + 1]}})
         + PathLength(edges, path, i + 1)

Shortest(edges, paths) == SetMin({PathLength(edges, p, 1) : p \in paths})

MinLength(edges, s, t) == Shortest(edges, SimplePaths(edges, s, t))

\* C1: every returned route is a walk from the start node to the end node whose
\* every step is joined by an edge of the network that is not in the blocked list.
C1_RoutesAvoidBlocked ==
    Called =>
       LET s == StartNode
           t == EndNode
           blocked == BlockedIds
       IN  \A r \in 1..Len(Routes) :
              LET path == Routes[r].path
              IN  /\ Len(path) >= 1
                  /\ path[1] = s
                  /\ path[Len(path)] = t
                  /\ \A i \in 1..(Len(path) - 1) :
                        \E e \in road_graph.edges :
                           e.u = path[i] /\ e.v = path[i + 1] /\ Id(e) \notin blocked

\* two routes returned across the step 5 -> 6 while its shorter parallel link is blocked
C1_Witness ==
    /\ Called
    /\ Len(Routes) = 2
    /\ <<5, 6, 1>> \in BlockedIds
    /\ Consecutive(Routes[1].path, 5, 6)

\* C2 as stated: no exception, and the result is empty exactly when the network
\* without the listed directed edges has no path from the start to the end node.
C2_EmptyIffNoDirectedPath ==
    Called =>
       /\ fr_out.raised = None
       /\ (Routes = <<>>) <=> (SimplePaths(DirectionalEdges, StartNode, EndNode) = {})

\* C2 amended: no exception, and the result is empty exactly when the network
\* without the listed directed edges and without their same-key reverses has no
\* path from the start to the end node.
C2_EmptyIffNoPath ==
    Called =>
       /\ fr_out.raised = None
       /\ (Routes = <<>>) <=> (SimplePaths(BothWaysEdges, StartNode, EndNode) = {})

\* every edge at the end node is blocked, the start is another node: empty result
C2_Witness ==
    /\ Called
    /\ fr_out.raised = None
    /\ Routes = <<>>
    /\ StartNode # EndNode
    /\ \A e \in road_graph.edges : (e.u = EndNode \/ e.v = EndNode) => Id(e) \in BlockedIds
    /\ \E e \in road_graph.edges : e.v = EndNode

\* C3 as stated: blocking is directional; the fastest route is a shortest path of
\* the network without exactly the listed directed edges.
C3_DirectionalBlocking ==
    Called =>
       LET edges == DirectionalEdges
           paths == SimplePaths(edges, StartNode, EndNode)
       IN  paths # {} =>
              /\ Routes # <<>>
              /\ PathLength(edges, Routes[1].path, 1) = Shortest(edges, paths)

\* C3 amended: blocking removes both directions of a key; no step of the fastest
\* route relies on a listed edge or on the same-key reverse of a listed edge, and
\* the fastest route is a shortest path of the network without the listed edges
\* and their same-key reverses.
C3_BothWaysBlocking ==
    Called =>
       LET edges == BothWaysEdges
           paths == SimplePaths(edges, StartNode, EndNode)
       IN  paths # {} =>
              /\ Routes # <<>>
              /\ \A i \in 1..(Len(Routes[1].path) - 1) :
                    \E e \in edges : e.u = Routes[1].path[i] /\ e.v = Routes[1].path[i + 1]
              /\ PathLength(edges, Routes[1].path, 1) = Shortest(edges, paths)

\* only (5, 4, 0) is listed, (4, 5, 0) is not, and the fastest route from node 1
\* to node 11 leaves the corridor at node 4
C3_Witness ==
    /\ Called
    /\ fr_in.blocked = << <<5, 4, 0>> >>
    /\ Routes # <<>>
    /\ Routes[1].path = <<1, 2, 3, 4, 12, 8, 9, 10, 11>>

\* C4: the fastest route has the least total length among the paths of the working
\* graph from the start to the end node, its distance_km is that length over 1000,
\* and no alternative reports a smaller distance.
C4_FastestIsShortest ==
    Called /\ Routes # <<>> =>
       LET working == GraphClean(road_graph, fr_in.blocked).edges
           least   == MinLength(working, StartNode, EndNode)
       IN  /\ Routes[1].type = "fastest"
           /\ PathLength(working, Routes[1].path, 1) = least
           /\ Routes[1].distance_km = Frac(least, MetresPerKm)
           /\ \A r \in 2..Len(Routes) :
                 /\ Routes[r].distance_km.den = Routes[1].distance_km.den
                 /\ Routes[r].distance_km.num >= Routes[1].distance_km.num

\* a fastest route over the step 5 -> 6 with both parallel edges usable, and an alternative
C4_Witness ==
    /\ Called
    /\ Len(Routes) = 2
    /\ Consecutive(Routes[1].path, 5, 6)
    /\ \A k \in {0, 1} : \E e \in GraphClean(road_graph, fr_in.blocked).edges : Id(e) = <<5, 6, k>>
    /\ Routes[2].distance_km.num > Routes[1].distance_km.num

\* C5: a primary path of 10 or fewer nodes gives exactly one route.
C5_ShortPrimaryOneRoute ==
    Called /\ Routes # <<>> /\ Len(Routes[1].path) <= AltThreshold => Len(Routes) = 1

\* a primary path of exactly 10 nodes whose middle could be bypassed
C5_Witness ==
    /\ Called
    /\ Len(Routes) = 1
    /\ Len(Routes[1].path) = AltThreshold
    /\ \E p \in SimplePaths(BothWaysEdges, StartNode, EndNode) : p # Routes[1].path

\* C6: start and end at the same node give exactly one route, the single node,
\* with distance 0 and time 0, whatever is blocked.
C6_SameNode ==
    Called /\ StartNode = EndNode =>
       /\ fr_out.raised = None
       /\ Len(Routes) = 1
       /\ Routes[1].path = <<StartNode>>
       /\ Routes[1].distance_km.num = 0
       /\ Routes[1].time_min.num = 0

\* start and end at one node, every edge at that node blocked
C6_Witness ==
    /\ Called
    /\ StartNode = EndNode
    /\ Len(Routes) = 1
    /\ \E e \in road_graph.edges : e.u = StartNode \/ e.v = StartNode
    /\ \A e \in road_graph.edges : (e.u = StartNode \/ e.v = StartNode) => Id(e) \in BlockedIds

\* C7: at most two routes; the first is typed fastest; a second is typed
\* alternative and its path differs from the first route's path.
C7_FastestThenAlternative ==
    Called =>
       /\ Len(Routes) <= 2
       /\ Len(Routes) >= 1 => Routes[1].type = "fastest"
       /\ Len(Routes) = 2 =>
             /\ Routes[2].type = "alternative"
             /\ Routes[2].path # Routes[1].path

\* two routes returned
C7_Witness ==
    /\ Called
    /\ Len(Routes) = 2
    /\ Routes[1].type = "fastest"
    /\ Routes[2].path # Routes[1].path

\* C13: when the primary path p has more than 10 nodes and an alternative is
\* returned, no step p[i] -> p[i+1] of the middle third of p (positions counted from
\* 0, floor(len(p)/3) <= i < floor(2*len(p)/3)) is a step of the alternative path.
C13_AlternativeAvoidsMiddleThird ==
    (Called /\ Len(Routes) = 2 /\ Len(Routes[1].path) > AltThreshold) =>
       LET p == Routes[1].path
       IN  \A i \in (Len(p) \div 3)..(((2 * Len(p)) \div 3) - 1) :
              ~Consecutive(Routes[2].path, p[i + 1], p[i + 2])

\* a call that returned an alternative to a primary path of more than 10 nodes
\* while edges were blocked; the alternative leaves the primary path in its
\* middle third
C13_Witness ==
    /\ Called
    /\ Len(Routes) = 2
    /\ Len(Routes[1].path) > AltThreshold
    /\ fr_in.blocked # <<>>
    /\ Consecutive(Routes[1].path, 5, 6)
    /\ Consecutive(Routes[2].path, 4, 12)

\* C15: when find_routes returns two routes, the travel time reported for the route
\* labeled fastest is at most the travel time reported for the alternative
\* (fractions compared by cross-multiplication).
C15_FastestTimeLeqAlternative ==
    (Called /\ Len(Routes) = 2) =>
       Routes[1].time_min.num * Routes[2].time_min.den
          <= Routes[2].time_min.num * Routes[1].time_min.den

====
